---- MODULE Spec2Model ----
(***************************************************************************)
(* A model of asf_tools/composite.py: the inverse-area weighted mosaic of  *)
(* Sentinel-1 RTC products (make_composite and its helpers).               *)
(*                                                                         *)
(* The arrays of make_composite hold binary floating-point numbers.  They  *)
(* are modelled as such: a finite number is  m * 2^e  with a significand   *)
(* of Prec bits, and every division and addition rounds to nearest, ties   *)
(* to even, as numpy does.  The exponent range is not bounded (no          *)
(* overflow to infinity, no subnormals).                                   *)
(***************************************************************************)
EXTENDS Integers, Sequences, FiniteSets, TLC

\* Significand precision of the floating-point format, in bits: 24 is binary32,
\* the format of the products and of the composite written.  One precision
\* stands for all the arrays (numpy's own are binary64, 53 bits).
Prec == 24

RECURSIVE Pow2(_)
Pow2(n) == IF n <= 0 THEN 1 ELSE 2 * Pow2(n - 1)

Abs(n) == IF n < 0 THEN -n ELSE n

Sgn(n) == IF n < 0 THEN -1 ELSE IF n > 0 THEN 1 ELSE 0

\* Number of bits of a natural number (0 for 0).
RECURSIVE BitLen(_)
BitLen(n) == IF n <= 0 THEN 0 ELSE 1 + BitLen(n \div 2)

NaN == [k |-> "nan", m |-> 0, e |-> 0]

PInf == [k |-> "inf", m |-> 1, e |-> 0]

NInf == [k |-> "inf", m |-> -1, e |-> 0]

FZero == [k |-> "fin", m |-> 0, e |-> 0]

IsFinite(x) == x.k = "fin"

IsNaN(x) == x.k = "nan"

\* The float nearest to  sign * mag * 2^e  (plus a little, when sticky), ties to
\* even.  mag > 0; when sticky holds, mag has at least Prec + 2 bits.
RoundNorm(sign, mag, sticky, e) ==
    LET len == BitLen(mag) IN
    IF len <= Prec
    THEN [k |-> "fin", m |-> sign * mag * Pow2(Prec - len), e |-> e - (Prec - len)]
    ELSE LET d    == len - Prec
             hi   == mag \div Pow2(d)
             lo   == mag % Pow2(d)
             half == Pow2(d - 1)
             up   == \/ lo > half
                     \/ lo = half /\ (sticky \/ hi % 2 = 1)
             r    == IF up THEN hi + 1 ELSE hi
         IN IF r = Pow2(Prec)
            THEN [k |-> "fin", m |-> sign * Pow2(Prec - 1), e |-> e + d + 1]
            ELSE [k |-> "fin", m |-> sign * r, e |-> e + d]

\* An integer sample as a float.
FromInt(n) == IF n = 0 THEN FZero ELSE RoundNorm(Sgn(n), Abs(n), FALSE, 0)

\* n more quotient bits of r / d by long division: <<quotient, remainder>>.
RECURSIVE LongDiv(_, _, _, _)
LongDiv(q, r, d, n) ==
    IF n = 0 THEN <<q, r>>
    ELSE IF 2 * r >= d THEN LongDiv(2 * q + 1, 2 * r - d, d, n - 1)
                       ELSE LongDiv(2 * q, 2 * r, d, n - 1)

\* x / y, IEEE 754: 0/0 and inf/inf are NaN, x/0 is an infinity.
FDiv(x, y) ==
    IF IsNaN(x) \/ IsNaN(y) THEN NaN
    ELSE IF x.k = "inf"
         THEN IF y.k = "inf" THEN NaN
              ELSE IF x.m * (IF y.m < 0 THEN -1 ELSE 1) < 0 THEN NInf ELSE PInf
    ELSE IF y.k = "inf" THEN FZero
    ELSE IF y.m = 0
         THEN IF x.m = 0 THEN NaN ELSE IF x.m < 0 THEN NInf ELSE PInf
    ELSE IF x.m = 0 THEN FZero
    ELSE LET ax == Abs(x.m)
             ay == Abs(y.m)
             qr == LongDiv(ax \div ay, ax % ay, ay, Prec + 2)
         IN RoundNorm(Sgn(x.m) * Sgn(y.m), qr[1], qr[2] # 0, x.e - y.e - (Prec + 2))

\* x + y for finite operands with x.e >= y.e, both nonzero.
AddAligned(x, y) ==
    LET d   == x.e - y.e
        A   == Abs(x.m) * 8
        B   == IF d > Prec + 3 THEN 0 ELSE (Abs(y.m) * 8) \div Pow2(d)
        st  == IF d > Prec + 3 THEN TRUE ELSE ((Abs(y.m) * 8) % Pow2(d)) # 0
    IN IF Sgn(x.m) = Sgn(y.m)
       THEN RoundNorm(Sgn(x.m), A + B, st, x.e - 3)
       ELSE LET diff == IF st THEN A - B - 1 ELSE A - B
            IN IF diff = 0 /\ ~st THEN FZero
               ELSE IF diff < 0 THEN RoundNorm(Sgn(y.m), -diff, st, x.e - 3)
               ELSE RoundNorm(Sgn(x.m), diff, st, x.e - 3)

\* x + y, IEEE 754: inf + -inf is NaN.
FAdd(x, y) ==
    IF IsNaN(x) \/ IsNaN(y) THEN NaN
    ELSE IF x.k = "inf" THEN (IF y.k = "inf" /\ y.m # x.m THEN NaN ELSE x)
    ELSE IF y.k = "inf" THEN y
    ELSE IF x.m = 0 THEN y
    ELSE IF y.m = 0 THEN x
    ELSE IF x.e >= y.e THEN AddAligned(x, y) ELSE AddAligned(y, x)

(***************************************************************************)
(* File names.  A product file is  <id>_flat_<POL>.tif  and its area map   *)
(* <id>_area_map.tif; the string operations of the code act on the name's  *)
(* parts.                                                                  *)
(***************************************************************************)
Pols == {"VV", "VH", "HH", "HV"}

PrimaryName(id, pol) == [id |-> id, kind |-> "flat", pol |-> pol, reproj |-> FALSE]

AreaMapName(id) == [id |-> id, kind |-> "area_map", pol |-> "", reproj |-> FALSE]

\* fi.replace(".tif", "_reproj.tif")
ReprojName(fi) == [fi EXCEPT !.reproj = TRUE]

\* fi.replace("_flat_VV.tif", "_area_map.tif"): only a name holding "_flat_VV.tif" changes.
AreaNameOf(fi) ==
    IF fi.kind = "flat" /\ fi.pol = "VV" /\ ~fi.reproj THEN AreaMapName(fi.id) ELSE fi

\* fi.replace("_flat_VV.tif", "_area_map_reproj.tif")
AreaReprojNameOf(fi) ==
    IF fi.kind = "flat" /\ fi.pol = "VV" /\ ~fi.reproj
    THEN ReprojName(AreaMapName(fi.id)) ELSE fi

\* fi.replace("_flat_VV_reproj", "_area_map_reproj")
AlignedAreaNameOf(fi) ==
    IF fi.kind = "flat" /\ fi.pol = "VV" /\ fi.reproj
    THEN ReprojName(AreaMapName(fi.id)) ELSE fi

\* "VV" in fi
HasVV(fi) == fi.pol = "VV"

\* The glob pattern  20*/PRODUCT/*<pol>.tif
GlobMatches(fi, pol) == fi.kind = "flat" /\ fi.pol = pol /\ ~fi.reproj

PolRank(pol) == CASE pol = "" -> 0 [] pol = "HH" -> 1 [] pol = "HV" -> 2
                  [] pol = "VH" -> 3 [] pol = "VV" -> 4

\* String order of two names of input products: by id, then by polarization.
NameLess(a, b) == a.id < b.id \/ (a.id = b.id /\ PolRank(a.pol) < PolRank(b.pol))

\* infiles.sort(): a stable sort.  Each name goes to the place after the names
\* below it and the equal names before it.
SortNames(s) ==
    LET n  == Len(s)
        rk == [i \in 1..n |->
                 Cardinality({ j \in 1..n : \/ NameLess(s[j], s[i])
                                            \/ (~NameLess(s[i], s[j]) /\ j < i) }) + 1]
    IN [p \in 1..n |-> s[CHOOSE i \in 1..n : rk[i] = p]]

(***************************************************************************)
(* Rasters.  A raster on disk has a UTM zone (0: none in its projection),  *)
(* a hemisphere, a pixel size ps (pixel height is -ps), an upper left      *)
(* corner, xs by ys samples, and its samples data[row][col].               *)
(***************************************************************************)
NoZone == 0

Raster(zone, hemi, ps, ulx, uly, data) ==
    [zone |-> zone, hemi |-> hemi, ps |-> ps, ulx |-> ulx, uly |-> uly,
     xs |-> Len(data[1]), ys |-> Len(data), data |-> data]

\* saa.getCorners(fi), as make_composite unpacks it: ulx, lrx, lry, uly
getCorners(r) == <<r.ulx, r.ulx + r.xs * r.ps, r.uly - r.ys * r.ps, r.uly>>

FloorDiv(a, b) == a \div b

CeilDiv(a, b) == -((-a) \div b)

\* int(a / b): the quotient truncated toward zero.
TruncDiv(a, b) ==
    IF (a >= 0 /\ b > 0) \/ (a <= 0 /\ b < 0) THEN Abs(a) \div Abs(b)
    ELSE -(Abs(a) \div Abs(b))

Clamp(n, lo, hi) == IF n < lo THEN lo ELSE IF n > hi THEN hi ELSE n

\* gdal.Warp(..., xRes=ps, yRes=ps, targetAlignedPixels=True): the output covers
\* the input's extent, grown to multiples of ps, in pixels of size ps.  The
\* resampling kernel is GDAL's; each output sample is taken here from the input
\* pixel under the output pixel's upper left corner.
Warp(r, zone, hemi, ps) ==
    LET c    == getCorners(r)
        ulx  == FloorDiv(c[1], ps) * ps
        lrx  == CeilDiv(c[2], ps) * ps
        lry  == FloorDiv(c[3], ps) * ps
        uly  == CeilDiv(c[4], ps) * ps
        xs   == (lrx - ulx) \div ps
        ys   == (uly - lry) \div ps
        col(j) == Clamp(FloorDiv(ulx + (j - 1) * ps - r.ulx, r.ps) + 1, 1, r.xs)
        row(i) == Clamp(FloorDiv(r.uly - (uly - (i - 1) * ps), r.ps) + 1, 1, r.ys)
    IN [zone |-> zone, hemi |-> hemi, ps |-> ps, ulx |-> ulx, uly |-> uly,
        xs |-> xs, ys |-> ys,
        data |-> [i \in 1..ys |-> [j \in 1..xs |-> r.data[row(i)][col(j)]]]]


(***************************************************************************)
(* get_full_extent, get_max_pixel_size, parse_zones and the median.        *)
(***************************************************************************)
Min(a, b) == IF a < b THEN a ELSE b

Max(a, b) == IF a > b THEN a ELSE b

\* The starting values of get_full_extent's running minima.
ExtentBig == 50000000

\* The starting values of get_full_extent's running maxima.
ExtentSmall == 0

ExtentStart == [min_ulx |-> ExtentBig, max_lrx |-> ExtentSmall,
                max_uly |-> ExtentSmall, min_lry |-> ExtentBig]

\* One pass of get_full_extent's loop over a corner record <<fi, ulx, lrx, lry, uly>>.
ExtentStep(acc, c) ==
    [min_ulx |-> Min(c[2], acc.min_ulx), max_uly |-> Max(c[5], acc.max_uly),
     max_lrx |-> Max(c[3], acc.max_lrx), min_lry |-> Min(c[4], acc.min_lry)]

\* The loop over the records, first to last: the first half, then the second.
\* (The test of mid has TLC evaluate the first half before it enters the second,
\* which keeps the evaluation of a long list shallow.)
RECURSIVE ExtentFold(_, _)
ExtentFold(acc, corners) ==
    LET n == Len(corners)
    IN IF n = 0 THEN acc
       ELSE IF n = 1 THEN ExtentStep(acc, corners[1])
       ELSE LET mid == ExtentFold(acc, SubSeq(corners, 1, n \div 2))
            IN IF mid = mid THEN ExtentFold(mid, SubSeq(corners, n \div 2 + 1, n)) ELSE mid

ExtentResult(acc) == <<acc.min_ulx, acc.max_lrx, acc.max_uly, acc.min_lry>>

get_full_extent(corners) == ExtentResult(ExtentFold(ExtentStart, corners))

\* The starting value of get_max_pixel_size.
NoPixSize == -999

\* The loop over the files, first to last: the first half, then the second
\* (evaluated in that order, as in ExtentFold).
RECURSIVE MaxPix(_, _, _)
MaxPix(pix, files, d) ==
    LET n == Len(files)
    IN IF n = 0 THEN pix
       ELSE IF n = 1 THEN Max(pix, d[files[1]].ps)
       ELSE LET mid == MaxPix(pix, SubSeq(files, 1, n \div 2), d)
            IN IF mid = mid THEN MaxPix(mid, SubSeq(files, n \div 2 + 1, n), d) ELSE mid

get_max_pixel_size(files, d) == MaxPix(NoPixSize, files, d)

\* The zones of the files that have one (a zone of None is left out).
RECURSIVE parse_zones(_, _)
parse_zones(files, d) ==
    LET n == Len(files)
    IN IF n = 0 THEN <<>>
       ELSE IF n = 1 THEN (IF d[files[1]].zone # NoZone THEN <<d[files[1]].zone>> ELSE <<>>)
       ELSE parse_zones(SubSeq(files, 1, n \div 2), d)
            \o parse_zones(SubSeq(files, n \div 2 + 1, n), d)

\* The sort inside np.median.
SortInts(s) ==
    LET n  == Len(s)
        rk == [i \in 1..n |->
                 Cardinality({ j \in 1..n : s[j] < s[i] \/ (s[j] = s[i] /\ j < i) }) + 1]
    IN [p \in 1..n |-> s[CHOOSE i \in 1..n : rk[i] = p]]

\* Twice np.median(zones), which is a whole number or a half; -1 for the NaN
\* that np.median gives an empty array.
Median2(zones) ==
    LET s == SortInts(zones)
        n == Len(s)
    IN IF n = 0 THEN -1
       ELSE IF n % 2 = 1 THEN 2 * s[(n + 1) \div 2]
       ELSE s[n \div 2] + s[n \div 2 + 1]

(***************************************************************************)
(* reproject_to_median_utm: what is done with one file.                    *)
(***************************************************************************)
WriteFile(d, name, content) ==
    [n \in DOMAIN d \cup {name} |-> IF n = name THEN content ELSE d[n]]

\* The branch taken for raster r: lines 145, 156 and 160.  The second test
\* compares x, the raster's width in samples, with the pixel size.
ReprojAction(r, pix_size, home2) ==
    IF r.zone = NoZone \/ 2 * r.zone # home2 THEN "reproject"
    ELSE IF r.xs < pix_size THEN "resample"
    ELSE "link"

\* The loop body for file fi: the new disk, and the exception raised, if any.
ReprojectOne(d, fi, pix_size, home2, hemi) ==
    LET r     == d[fi]
        name  == ReprojName(fi)
        afi   == AreaNameOf(fi)
        aname == AreaReprojNameOf(fi)
        act   == ReprojAction(r, pix_size, home2)
    IN CASE act = "reproject" ->
              IF home2 < 0 THEN [disk |-> d, err |-> "ValueError"]
              ELSE LET z  == home2 \div 2
                       h  == IF hemi = "N" THEN "N" ELSE "S"
                       d1 == WriteFile(d, name, Warp(r, z, h, pix_size))
                   IN [disk |-> IF aname = afi \/ afi \notin DOMAIN d1 THEN d1
                                ELSE WriteFile(d1, aname, Warp(d1[afi], z, h, pix_size)),
                       err |-> ""]
         [] act = "resample" ->
              LET d1 == WriteFile(d, name, Warp(r, r.zone, r.hemi, pix_size))
              IN [disk |-> IF aname = afi \/ afi \notin DOMAIN d1 THEN d1
                           ELSE WriteFile(d1, aname,
                                          Warp(d1[afi], d1[afi].zone, d1[afi].hemi, pix_size)),
                  err |-> ""]
         [] act = "link" ->
              LET d1 == IF name \in DOMAIN d THEN d ELSE WriteFile(d, name, r)
              IN IF name \in DOMAIN d \/ aname \in DOMAIN d1
                 THEN [disk |-> d1, err |-> "FileExistsError"]
                 ELSE [disk |-> IF afi \in DOMAIN d1 THEN WriteFile(d1, aname, d1[afi]) ELSE d1,
                       err |-> ""]

(***************************************************************************)
(* make_composite: the output grid and the accumulation of one raster.     *)
(***************************************************************************)
\* The value that replaces a zero area.
Sentinel == 10000000

\* The no-data value the composite is written with.
NoData == 0

\* The areas left as they are read.
FixAreaSkipped(a) == a

\* areas[areas == 0] = 10000000
FixArea(a) == IF a = 0 THEN Sentinel ELSE a

\* values * 1.0: exact in IEEE arithmetic.
TimesOne(x) == x

One == FromInt(1)

\* values * 1.0/areas, for one sample
Term(v, a) == FDiv(TimesOne(FromInt(v)), FromInt(a))

\* Every sample weighted alike.
WeightUniform(a) == One

\* 1.0/areas, for one sample
Weight(a) == FDiv(One, FromInt(a))

\* outputs[...] = term
AddIntoOverwrites(old, term) == term

\* outputs[...] += term
AddInto(old, term) == FAdd(old, term)

\* A count of dtype np.int8 after an addition: it wraps.
Int8(n) == ((n + 128) % 256) - 128

\* counts.astype(np.int16)
Int16(n) == ((n + 32768) % 65536) - 32768

\* A slice bound on an axis of n elements, as Python clips it.
SliceIdx(a, n) == IF a < 0 THEN Max(a + n, 0) ELSE Min(a, n)

Pixels(g) == (1..g.y_pixels) \X (1..g.x_pixels)

\* Lines 192-213: the pixel size of the first aligned file, the corner records,
\* their union and the size of the output grid.
ExtentsOf(files, d) == [i \in 1..Len(files) |-> <<files[i]>> \o getCorners(d[files[i]])]

GridOf(files, d) ==
    LET e   == get_full_extent(ExtentsOf(files, d))
        psx == d[files[1]].ps
        psy == -d[files[1]].ps
    IN [ulx |-> e[1], lrx |-> e[2], uly |-> e[3], lry |-> e[4],
        pixel_size_x |-> psx, pixel_size_y |-> psy,
        x_pixels |-> Abs(TruncDiv(e[1] - e[2], psx)),
        y_pixels |-> Abs(TruncDiv(e[4] - e[3], psy))]

\* out_loc_x: the file's ulx (which the loop calls x_max) against the grid's.
OutLocX(ext, g) == TruncDiv(ext[2] - g.ulx, g.pixel_size_x)

\* out_loc_y: the file's uly (which the loop calls y_min) against the grid's.
OutLocY(ext, g) == TruncDiv(ext[5] - g.uly, g.pixel_size_y)

EndLocX(ext, g, x_size) == TruncDiv(ext[2] - g.ulx + x_size * g.pixel_size_x, g.pixel_size_x)

EndLocY(ext, g, y_size) == TruncDiv(ext[5] - g.uly + y_size * g.pixel_size_y, g.pixel_size_y)

\* Lines 217-245 for one corner record: the arrays after it, and the exception
\* raised, if any.  A file without "VV" in its name is passed over.
AccumulateOne(st, ext, d, g) ==
    LET fi == ext[1] IN
    IF ~HasVV(fi) THEN [st EXCEPT !.err = ""]
    ELSE IF AlignedAreaNameOf(fi) \notin DOMAIN d \/ fi \notin DOMAIN d
    THEN [st EXCEPT !.err = "AttributeError"]
    ELSE
    LET areas  == d[AlignedAreaNameOf(fi)]
        values == d[fi]
        x_size == values.xs
        y_size == values.ys
        x0 == SliceIdx(OutLocX(ext, g), g.x_pixels)
        x1 == SliceIdx(EndLocX(ext, g, x_size), g.x_pixels)
        y0 == SliceIdx(OutLocY(ext, g), g.y_pixels)
        y1 == SliceIdx(EndLocY(ext, g, y_size), g.y_pixels)
        sw == Max(x1 - x0, 0)
        sh == Max(y1 - y0, 0)
        fits == /\ areas.xs = x_size /\ areas.ys = y_size
                /\ (y_size = sh \/ y_size = 1)
                /\ (x_size = sw \/ x_size = 1)
        in(p) == p[1] > y0 /\ p[1] <= y0 + sh /\ p[2] > x0 /\ p[2] <= x0 + sw
        r(p) == IF y_size = 1 THEN 1 ELSE p[1] - y0
        c(p) == IF x_size = 1 THEN 1 ELSE p[2] - x0
    IN IF ~fits THEN [st EXCEPT !.err = "ValueError"]
       ELSE [outputs |-> [p \in Pixels(g) |->
                            IF in(p)
                            THEN AddInto(st.outputs[p],
                                         Term(values.data[r(p)][c(p)],
                                              FixArea(areas.data[r(p)][c(p)])))
                            ELSE st.outputs[p]],
             weights |-> [p \in Pixels(g) |->
                            IF in(p)
                            THEN AddInto(st.weights[p], Weight(FixArea(areas.data[r(p)][c(p)])))
                            ELSE st.weights[p]],
             counts  |-> [p \in Pixels(g) |->
                            IF in(p) THEN Int8(st.counts[p] + 1) ELSE st.counts[p]],
             err |-> ""]

\* np.zeros for the three arrays.
ZeroArrays(g) ==
    [outputs |-> [p \in Pixels(g) |-> FZero], weights |-> [p \in Pixels(g) |-> FZero],
     counts |-> [p \in Pixels(g) |-> 0], err |-> ""]

\* outputs /= weights
Normalize(o, w) == [p \in DOMAIN o |-> FDiv(o[p], w[p])]

(***************************************************************************)
(* The state of one run of make_composite.                                 *)
(***************************************************************************)
VARIABLES
    requested_pol,  \* the --pol argument ("None": not given)
    path,           \* the products found under --path, in glob's order (<<>>: no path)
    resolution,     \* the --resolution argument (0: not given)
    infiles,        \* the list of input files
    disk,           \* the rasters on disk, by name
    pc,             \* where the run is
    err,            \* the exception that ended the run
    pix_size,       \* reproject_to_median_utm: the target pixel size
    home_zone,      \* twice the median zone
    hemi,           \* the hemisphere of the first file
    new_files,      \* the aligned files so far
    actions,        \* the log of the loop: "reproject", "resample" or "link" per file
    extents,        \* the corner records
    bbox,           \* get_full_extent's running minima and maxima
    grid,           \* the union's corners, the pixel size and the grid's size
    outputs,        \* the sum of value / area
    weights,        \* the sum of 1 / area
    counts,         \* the number of rasters over each pixel (np.int8)
    k,              \* the corner record the accumulation is at
    processed,      \* the "Processing file" log: each file with its area file
    snapshots,      \* the composite_<fi> files written
    outfile,        \* the composite written (<<>>: not yet)
    countsfile      \* counts.tif (<<>>: not yet)

vars == <<requested_pol, path, resolution, infiles, disk, pc, err, pix_size, home_zone,
          hemi, new_files, actions, extents, bbox, grid, outputs, weights, counts, k,
          processed, snapshots, outfile, countsfile>>

\* get_hemisphere: None when the projection names no UTM zone.
get_hemisphere(r) == IF r.zone = NoZone THEN "None" ELSE r.hemi

NoGrid == [ulx |-> 0, lrx |-> 0, uly |-> 0, lry |-> 0, pixel_size_x |-> 0,
           pixel_size_y |-> 0, x_pixels |-> 0, y_pixels |-> 0]

\* A scene: a product of one polarization and its area map, both on the same grid.
Scene(pol, zone, hemi_, ps, ulx, uly, vals, areas) ==
    [pol |-> pol, img |-> Raster(zone, hemi_, ps, ulx, uly, vals),
     area |-> Raster(zone, hemi_, ps, ulx, uly, areas)]

DiskOf(scenes) ==
    [n \in {PrimaryName(i, scenes[i].pol) : i \in 1..Len(scenes)}
           \cup {AreaMapName(i) : i \in 1..Len(scenes)} |->
        IF n.kind = "flat" THEN scenes[n.id].img ELSE scenes[n.id].area]

\* The names of the scenes' products, last first: the caller's list is in any order.
Listing(scenes) ==
    [i \in 1..Len(scenes) |->
        PrimaryName(Len(scenes) + 1 - i, scenes[Len(scenes) + 1 - i].pol)]

\* The state make_composite starts in.
Start(pol, bypath, res, scenes) ==
    /\ requested_pol = pol
    /\ path = IF bypath THEN Listing(scenes) ELSE <<>>
    /\ infiles = IF bypath THEN <<>> ELSE Listing(scenes)
    /\ resolution = res
    /\ disk = DiskOf(scenes)
    /\ pc = "start"
    /\ err = ""
    /\ pix_size = 0
    /\ home_zone = 0
    /\ hemi = "None"
    /\ new_files = <<>>
    /\ actions = <<>>
    /\ extents = <<>>
    /\ bbox = ExtentStart
    /\ grid = NoGrid
    /\ outputs = <<>>
    /\ weights = <<>>
    /\ counts = <<>>
    /\ k = 0
    /\ processed = <<>>
    /\ snapshots = <<>>
    /\ outfile = <<>>
    /\ countsfile = <<>>

\* Lines 173-189 and 120-135: the default polarization, the file list, its sort, and the
\* head of reproject_to_median_utm.  With fewer than two files it returns None,
\* and len(None) raises TypeError.
Begin ==
    /\ pc = "start"
    /\ LET pol      == IF requested_pol = "None" THEN "VV" ELSE requested_pol
           Found(f) == GlobMatches(f, pol)
           files    == SortNames(IF path # <<>> THEN SelectSeq(path, Found) ELSE infiles)
       IN /\ requested_pol' = pol
          /\ infiles' = files
          /\ IF Len(files) < 2
             THEN /\ pc' = "aborted"
                  /\ err' = "TypeError"
                  /\ UNCHANGED <<pix_size, home_zone, hemi>>
             ELSE /\ pc' = "reproject"
                  /\ err' = ""
                  /\ pix_size' = IF resolution # 0 THEN resolution
                                 ELSE get_max_pixel_size(files, disk)
                  /\ home_zone' = Median2(parse_zones(files, disk))
                  /\ hemi' = get_hemisphere(disk[files[1]])
    /\ UNCHANGED <<path, resolution, disk, new_files, actions, extents, bbox, grid,
                   outputs, weights, counts, k, processed, snapshots, outfile, countsfile>>

\* Lines 140-164: one pass of the loop of reproject_to_median_utm.
ReprojectFile ==
    /\ pc = "reproject"
    /\ Len(new_files) < Len(infiles)
    /\ LET fi  == infiles[Len(new_files) + 1]
           res == ReprojectOne(disk, fi, pix_size, home_zone, hemi)
       IN /\ disk' = res.disk
          /\ actions' = Append(actions, ReprojAction(disk[fi], pix_size, home_zone))
          /\ IF res.err # ""
             THEN pc' = "aborted" /\ err' = res.err /\ UNCHANGED new_files
             ELSE new_files' = Append(new_files, ReprojName(fi)) /\ UNCHANGED <<pc, err>>
    /\ UNCHANGED <<requested_pol, path, resolution, infiles, pix_size, home_zone, hemi,
                   extents, bbox, grid, outputs, weights, counts, k, processed, snapshots,
                   outfile, countsfile>>

\* Lines 167 and 187-214: reproject_to_median_utm returns, and make_composite
\* sizes the output grid and makes the three arrays.
ComputeExtent ==
    /\ pc = "reproject"
    /\ Len(new_files) = Len(infiles)
    /\ LET g == GridOf(new_files, disk)
       IN /\ extents' = ExtentsOf(new_files, disk)
          /\ bbox' = ExtentFold(ExtentStart, ExtentsOf(new_files, disk))
          /\ grid' = g
          /\ outputs' = ZeroArrays(g).outputs
          /\ weights' = ZeroArrays(g).weights
          /\ counts' = ZeroArrays(g).counts
    /\ k' = 1
    /\ pc' = "accumulate"
    /\ UNCHANGED <<requested_pol, path, resolution, infiles, disk, err, pix_size,
                   home_zone, hemi, new_files, actions, processed, snapshots, outfile,
                   countsfile>>

\* Lines 216-245: one pass of the accumulation loop.
Accumulate ==
    /\ pc = "accumulate"
    /\ k <= Len(extents)
    /\ LET ext == extents[k]
           res == AccumulateOne([outputs |-> outputs, weights |-> weights,
                                 counts |-> counts, err |-> ""], ext, disk, grid)
       IN IF res.err # ""
          THEN /\ pc' = "aborted"
               /\ err' = res.err
               /\ UNCHANGED <<outputs, weights, counts, k, processed, snapshots>>
          ELSE /\ outputs' = res.outputs
               /\ weights' = res.weights
               /\ counts' = res.counts
               /\ k' = k + 1
               /\ IF HasVV(ext[1])
                  THEN /\ processed' = Append(processed,
                                              [fi |-> ext[1], area |-> AlignedAreaNameOf(ext[1])])
                       /\ snapshots' = Append(snapshots, res.outputs)
                  ELSE UNCHANGED <<processed, snapshots>>
               /\ UNCHANGED <<pc, err>>
    /\ UNCHANGED <<requested_pol, path, resolution, infiles, disk, pix_size, home_zone,
                   hemi, new_files, actions, extents, bbox, grid, outfile, countsfile>>

\* Lines 247-254: the normalization and the two products.
Finalize ==
    /\ pc = "accumulate"
    /\ k > Len(extents)
    /\ outputs' = Normalize(outputs, weights)
    /\ outfile' = <<Normalize(outputs, weights)>>
    /\ countsfile' = <<[p \in DOMAIN counts |-> Int16(counts[p])]>>
    /\ pc' = "done"
    /\ UNCHANGED <<requested_pol, path, resolution, infiles, disk, err, pix_size,
                   home_zone, hemi, new_files, actions, extents, bbox, grid, weights, counts,
                   k, processed, snapshots>>

Next == Begin \/ ReprojectFile \/ ComputeExtent \/ Accumulate \/ Finalize

(***************************************************************************)
(* Runs over aligned products of polarization VV with varied samples,      *)
(* areas and footprints.                                                   *)
(***************************************************************************)
\* The largest number of input rasters.
MaxRasters == 3

\* The zone, pixel size and upper left corner the footprints are placed from.
BaseZone == 10

BaseX == 10

BaseY == 21

\* Samples and areas: a single sample whose quotients round; a row with a zero
\* area; a column with areas that are powers of two.
Contents ==
    { [vals |-> << <<5>> >>,          areas |-> << <<3>> >>],
      [vals |-> << <<10, 11>> >>,     areas |-> << <<1, 0>> >>],
      [vals |-> << <<20>>, <<1>> >>,  areas |-> << <<4>>, <<1>> >>] }

Places == { <<BaseX, BaseY>>, <<BaseX + 1, BaseY - 1>> }

Tiles == { Scene("VV", BaseZone, "N", 1, pl[1], pl[2], c.vals, c.areas) :
             pl \in Places, c \in Contents }

SeqsUpTo(S, n) == UNION { [1..m -> S] : m \in 0..n }

Init ==
    \E scenes \in SeqsUpTo(Tiles, MaxRasters), pol \in {"VV", "None"} :
        Start(pol, FALSE, 0, scenes)

Spec == Init /\ [][Next]_vars
(***************************************************************************)
(* What the claims speak of: the ground cell of an output pixel, the       *)
(* processed rasters over it, and their samples.                           *)
(***************************************************************************)
PixelX(p) == grid.ulx + (p[2] - 1) * grid.pixel_size_x

PixelY(p) == grid.uly + (p[1] - 1) * grid.pixel_size_y

Covers(r, p) ==
    /\ r.ulx <= PixelX(p) /\ PixelX(p) < r.ulx + r.xs * r.ps
    /\ r.uly - r.ys * r.ps < PixelY(p) /\ PixelY(p) <= r.uly

SampleAt(r, p) == r.data[(r.uly - PixelY(p)) \div r.ps + 1][(PixelX(p) - r.ulx) \div r.ps + 1]

\* The aligned area map that belongs to an aligned product, by the naming rule.
PairedArea(fi) == [id |-> fi.id, kind |-> "area_map", pol |-> "", reproj |-> TRUE]

\* The processed rasters over pixel p, in the order they were processed, each as
\* <<value, area>> (the area as stored, zero included).
RECURSIVE CoveringIn(_, _, _)
CoveringIn(lo, hi, p) ==
    IF lo > hi THEN <<>>
    ELSE IF lo = hi
    THEN (IF Covers(disk[processed[lo].fi], p)
          THEN << <<SampleAt(disk[processed[lo].fi], p),
                    SampleAt(disk[PairedArea(processed[lo].fi)], p)>> >>
          ELSE <<>>)
    ELSE CoveringIn(lo, (lo + hi) \div 2, p) \o CoveringIn((lo + hi) \div 2 + 1, hi, p)

Covering(p) == CoveringIn(1, Len(processed), p)

SentinelArea(a) == IF a = 0 THEN Sentinel ELSE a

RECURSIVE GCD(_, _)
GCD(a, b) == IF b = 0 THEN a ELSE GCD(b, a % b)

RECURSIVE LcmAreas(_)
LcmAreas(cs) ==
    IF cs = <<>> THEN 1
    ELSE LET a == SentinelArea(cs[1][2])
             l == LcmAreas(Tail(cs))
         IN (l \div GCD(l, a)) * a

\* The sum of v_i * (L / a_i) and the sum of L / a_i: the exact quotient
\* (sum of v_i/a_i) / (sum of 1/a_i) is their ratio.
RECURSIVE ExactNum(_, _)
ExactNum(cs, L) ==
    IF cs = <<>> THEN 0
    ELSE cs[1][1] * (L \div SentinelArea(cs[1][2])) + ExactNum(Tail(cs), L)

RECURSIVE ExactDen(_, _)
ExactDen(cs, L) ==
    IF cs = <<>> THEN 0 ELSE (L \div SentinelArea(cs[1][2])) + ExactDen(Tail(cs), L)

RECURSIVE OddPart(_)
OddPart(n) == IF n = 0 \/ n % 2 = 1 THEN n ELSE OddPart(n \div 2)

RECURSIVE Log2(_)
Log2(n) == IF n <= 1 THEN 0 ELSE 1 + Log2(n \div 2)

IsPow2(n) == n > 0 /\ OddPart(n) = 1

\* f is exactly the rational a / b (b > 0).
ExactlyEquals(f, a, b) ==
    IF a = 0 THEN f = FZero
    ELSE LET g  == GCD(Abs(a), b)
             n  == Abs(a) \div g
             dn == b \div g
         IN /\ IsPow2(dn)
            /\ BitLen(OddPart(n)) <= Prec
            /\ f = RoundNorm(Sgn(a), OddPart(n), FALSE, Log2(n \div OddPart(n)) - Log2(dn))

\* The two running sums over a pixel, each quotient and each addition rounded.
RECURSIVE RoundedSum(_, _)
RoundedSum(acc, terms) ==
    IF terms = <<>> THEN acc ELSE RoundedSum(FAdd(acc, terms[1]), Tail(terms))

RoundedQuotient(cs) ==
    FDiv(RoundedSum(FZero, [i \in 1..Len(cs) |->
                              FDiv(FromInt(cs[i][1]), FromInt(SentinelArea(cs[i][2])))]),
         RoundedSum(FZero, [i \in 1..Len(cs) |->
                              FDiv(FromInt(1), FromInt(SentinelArea(cs[i][2])))]))

\* |f - v| <= 4 * 2^-Prec * |v|, for an integer v.
WithinRounding(f, v) ==
    IF v = 0 THEN f = FZero
    ELSE LET fv == FromInt(v)
             lo == Min(f.e, fv.e)
         IN /\ f.k = "fin"
            /\ Abs(f.e - fv.e) <= 1
            /\ Abs(f.m * Pow2(f.e - lo) - fv.m * Pow2(fv.e - lo))
                 <= (Abs(fv.m) * Pow2(fv.e - lo)) \div Pow2(Prec - 2)

AllPow2Areas(cs) == \A i \in 1..Len(cs) : IsPow2(cs[i][2])

\* C1, as stated: at every pixel that processed rasters cover, the composite is
\* exactly (sum of v_i/a_i) / (sum of 1/a_i), a zero area counting as the sentinel;
\* covered once, it is exactly the raster's value.
C1_ExactWeightedMean ==
    pc = "done" =>
        \A p \in Pixels(grid) :
            LET cs == Covering(p) IN
            cs # <<>> =>
                ExactlyEquals(outfile[1][p], ExactNum(cs, LcmAreas(cs)),
                              ExactDen(cs, LcmAreas(cs)))

\* C1, amended: at every covered pixel the composite is the rounded quotient of
\* the two rounded running sums; where no term and no sum needed rounding (small
\* whole values over areas that are powers of two) it is the exact weighted mean
\* rounded to nearest; covered once, it is within 4 * 2^-Prec of the raster's
\* value, and equal to it when the area is a power of two.
C1_RoundedWeightedMean ==
    pc = "done" =>
        \A p \in Pixels(grid) :
            LET cs == Covering(p) IN
            cs # <<>> =>
                /\ outfile[1][p] = RoundedQuotient(cs)
                /\ AllPow2Areas(cs) =>
                      outfile[1][p] = FDiv(FromInt(ExactNum(cs, LcmAreas(cs))),
                                           FromInt(ExactDen(cs, LcmAreas(cs))))
                /\ Len(cs) = 1 => WithinRounding(outfile[1][p], cs[1][1])
                /\ Len(cs) = 1 /\ IsPow2(cs[1][2]) => outfile[1][p] = FromInt(cs[1][1])

\* A finished run with a pixel covered once by a zero area, whose value is not
\* the raster's, and a pixel covered by several rasters.
C1_Witness ==
    /\ pc = "done"
    /\ \E p \in Pixels(grid) :
          /\ Len(Covering(p)) = 1
          /\ Covering(p)[1][2] = 0
          /\ outfile[1][p] # FromInt(Covering(p)[1][1])
    /\ \E p \in Pixels(grid) : Len(Covering(p)) >= 2

\* C2, as stated: where no processed raster covers a pixel, counts.tif holds 0
\* and the composite holds the no-data value 0.
C2_UncoveredIsNoData ==
    pc = "done" =>
        \A p \in Pixels(grid) :
            Covering(p) = <<>> =>
                countsfile[1][p] = 0 /\ outfile[1][p] = FromInt(NoData)

\* C3: while rasters are accumulated and after, the weight of every covered pixel
\* is finite and above zero, and the composite written there is a finite number.
C3_NoNaNFromZeroArea ==
    /\ pc = "accumulate" =>
          \A p \in Pixels(grid) :
              Covering(p) # <<>> => weights[p].k = "fin" /\ weights[p].m > 0
    /\ pc = "done" =>
          \A p \in Pixels(grid) :
              Covering(p) # <<>> =>
                  /\ weights[p].k = "fin" /\ weights[p].m > 0
                  /\ outfile[1][p].k = "fin"

\* A finished run in which a zero area lies over a covered pixel.
C3_Witness ==
    /\ pc = "done"
    /\ \E p \in Pixels(grid) :
          \E i \in 1..Len(Covering(p)) : Covering(p)[i][2] = 0

\* C5, as stated: with fewer than two input rasters the run ends in a
\* configuration error, and nothing has been written.
C5_TooFewIsConfigurationError ==
    (pc # "start" /\ Len(infiles) < 2) =>
        /\ pc = "aborted"
        /\ err = "ConfigurationError"
        /\ new_files = <<>> /\ snapshots = <<>> /\ outfile = <<>> /\ countsfile = <<>>
        /\ \A n \in DOMAIN disk : ~n.reproj

(***************************************************************************)
(* The accumulation in another order.                                      *)
(***************************************************************************)
Perms(n) == { f \in [1..n -> 1..n] : \A i, j \in 1..n : f[i] = f[j] => i = j }

RECURSIVE AccumulateAll(_, _)
AccumulateAll(st, exts) ==
    IF exts = <<>> \/ st.err # "" THEN st
    ELSE AccumulateAll(AccumulateOne(st, exts[1], disk, grid), Tail(exts))

ResultInOrder(f) ==
    LET st == AccumulateAll(ZeroArrays(grid), [i \in 1..Len(extents) |-> extents[f[i]]])
    IN [composite |-> Normalize(st.outputs, st.weights),
        counts |-> [p \in Pixels(grid) |-> Int16(st.counts[p])]]

\* C8, as stated: the composite and the counts are the same in every order of
\* accumulation.
C8_OrderIndependent ==
    pc = "done" =>
        \A f \in Perms(Len(extents)) :
            LET r == ResultInOrder(f)
            IN r.composite = outfile[1] /\ r.counts = countsfile[1]

\* C8, amended: the counts are the same in every order, and so is the composite
\* at every pixel that at most two rasters cover.
C8_OrderIndependentUpToTwo ==
    pc = "done" =>
        LET few == { p \in Pixels(grid) : Len(Covering(p)) <= 2 }
        IN \A f \in Perms(Len(extents)) :
               LET r == ResultInOrder(f)
               IN /\ r.counts = countsfile[1]
                  /\ \A p \in few : r.composite[p] = outfile[1][p]

\* A finished run of three rasters with a pixel under exactly two of them, of
\* different value and area.
C8_Witness ==
    /\ pc = "done"
    /\ Len(processed) = 3
    /\ \E p \in Pixels(grid) :
          Len(Covering(p)) = 2 /\ Covering(p)[1] # Covering(p)[2]
(***************************************************************************)
(* Runs of reproject_to_median_utm over products of several zones,         *)
(* hemispheres, pixel sizes and widths, with and without --resolution.     *)
(***************************************************************************)
\* The largest number of input rasters of these runs.
MaxGeo == 3

\* A product w samples wide, one line high, of uniform value and area.
Flat(pol, zone, hemi_, ps, ulx, w) ==
    Scene(pol, zone, hemi_, ps, ulx, BaseY, << [j \in 1..w |-> 2] >>, << [j \in 1..w |-> 1] >>)

GeoTiles ==
    { Flat("VV", BaseZone, "N", 1, BaseX, 3),
      Flat("VV", BaseZone, "N", 2, BaseX, 3),
      Flat("VV", BaseZone, "N", 2, BaseX + 2, 1),
      Flat("VV", BaseZone, "S", 1, BaseX, 3),
      Flat("VV", BaseZone + 1, "N", 1, BaseX, 3),
      Flat("VV", BaseZone + 1, "N", 2, BaseX, 4),
      Flat("VV", NoZone, "N", 1, BaseX, 3) }

InitGeo ==
    \E scenes \in SeqsUpTo(GeoTiles, MaxGeo), res \in {0, 2, 4} :
        Start("VV", FALSE, res, scenes)

SpecGeo == InitGeo /\ [][Next]_vars

\* reproject_to_median_utm has returned its list.
Returned == pc \in {"reproject", "accumulate", "done"} /\ Len(new_files) = Len(infiles)

\* C6, as stated: once reproject_to_median_utm has returned, all aligned rasters
\* have one zone (with its hemisphere) and one pixel size.
C6_AlignedAlike ==
    Returned =>
        \A i, j \in 1..Len(new_files) :
            /\ disk[new_files[i]].zone = disk[new_files[j]].zone
            /\ disk[new_files[i]].hemi = disk[new_files[j]].hemi
            /\ disk[new_files[i]].ps = disk[new_files[j]].ps

\* What the claim has the loop do with raster r.
ClaimedAction(r) ==
    IF r.zone = NoZone \/ 2 * r.zone # home_zone THEN "reproject"
    ELSE IF r.ps < pix_size THEN "resample"
    ELSE "link"

\* C7, as stated: a raster of another zone is reprojected; one of the target
\* zone is resampled when its pixel size is below the target's, linked otherwise.
C7_ThreeActions ==
    \A i \in 1..Len(actions) : actions[i] = ClaimedAction(disk[infiles[i]])

(***************************************************************************)
(* Runs over products of the four polarizations, found under a path or     *)
(* given as a list, with each value of --pol.                              *)
(***************************************************************************)
\* The largest number of products of these runs.
MaxPol == 3

PolTiles ==
    { Flat(pol, BaseZone, "N", 1, BaseX + dx, 1) : pol \in Pols, dx \in {0, 1} }

InitPol ==
    \E scenes \in SeqsUpTo(PolTiles, MaxPol), pol \in Pols \cup {"None"},
       bypath \in BOOLEAN, res \in {0, 2} :
        Start(pol, bypath, res, scenes)

SpecPol == InitPol /\ [][Next]_vars

Range(s) == { s[i] : i \in 1..Len(s) }

\* C9, as stated: a run over two or more products accumulates exactly the
\* aligned products of the requested polarization, each with its own area map.
C9_RequestedPolAccumulated ==
    (pc \in {"done", "aborted"} /\ Len(infiles) >= 2) =>
        /\ { processed[i].fi : i \in 1..Len(processed) }
             = { ReprojName(f) : f \in { g \in Range(infiles) : g.pol = requested_pol } }
        /\ \A i \in 1..Len(processed) :
              /\ processed[i].area = PairedArea(processed[i].fi)
              /\ processed[i].area \in DOMAIN disk

(***************************************************************************)
(* Runs over many copies of one product, all over the same pixels.         *)
(***************************************************************************)
\* The largest number of copies.
MaxMany == 130

InitMany ==
    \E n \in 0..MaxMany :
        Start("VV", FALSE, 0, [i \in 1..n |-> Flat("VV", BaseZone, "N", 1, BaseX, 1)])

SpecMany == InitMany /\ [][Next]_vars

\* C10, as stated: counts.tif holds, at each pixel, the number of processed
\* rasters over it.
C10_CountsAreCoverage ==
    pc = "done" => \A p \in Pixels(grid) : countsfile[1][p] = Len(Covering(p))

(***************************************************************************)
(* get_full_extent alone, over corner records of any sign and size.        *)
(***************************************************************************)
\* The largest number of corner records.
MaxCorners == 3

Spans == { <<-3, -1>>, <<-1, 2>>, <<2, 4>>, <<ExtentBig + 1, ExtentBig + 3>> }

\* Corner records <<fi, ulx, lrx, lry, uly>>.
CornerRecords == { <<0, x[1], x[2], y[1], y[2]>> : x \in Spans, y \in Spans }

InitExtent ==
    \E corners \in SeqsUpTo(CornerRecords, MaxCorners) :
        /\ requested_pol = "VV"
        /\ path = <<>>
        /\ infiles = <<>>
        /\ resolution = 0
        /\ disk = DiskOf(<<>>)
        /\ pc = "gfe_loop"
        /\ err = ""
        /\ pix_size = 0
        /\ home_zone = 0
        /\ hemi = "None"
        /\ new_files = <<>>
        /\ actions = <<>>
        /\ extents = corners
        /\ bbox = ExtentStart
        /\ grid = NoGrid
        /\ outputs = <<>>
        /\ weights = <<>>
        /\ counts = <<>>
        /\ k = 1
        /\ processed = <<>>
        /\ snapshots = <<>>
        /\ outfile = <<>>
        /\ countsfile = <<>>

\* Lines 60-65: one pass of the loop of get_full_extent.
ExtentLoop ==
    /\ pc = "gfe_loop"
    /\ k <= Len(extents)
    /\ bbox' = ExtentStep(bbox, extents[k])
    /\ k' = k + 1
    /\ UNCHANGED <<requested_pol, path, resolution, infiles, disk, pc, err, pix_size,
                   home_zone, hemi, new_files, actions, extents, grid, outputs, weights,
                   counts, processed, snapshots, outfile, countsfile>>

\* Line 68: get_full_extent returns.
ExtentReturn ==
    /\ pc = "gfe_loop"
    /\ k > Len(extents)
    /\ pc' = "gfe_done"
    /\ UNCHANGED <<requested_pol, path, resolution, infiles, disk, err, pix_size,
                   home_zone, hemi, new_files, actions, extents, bbox, grid, outputs,
                   weights, counts, k, processed, snapshots, outfile, countsfile>>

NextExtent == ExtentLoop \/ ExtentReturn

SpecExtent == InitExtent /\ [][NextExtent]_vars

SetMin(S) == CHOOSE x \in S : \A y \in S : x <= y

SetMax(S) == CHOOSE x \in S : \A y \in S : x >= y

Permuted(s, f) == [i \in 1..Len(s) |-> s[f[i]]]

\* C4, as stated: over a non-empty list of corner records of any sign and size,
\* get_full_extent returns the least ulx, the greatest lrx, the greatest uly and
\* the least lry, whatever the order of the records.
C4_ExtentIsUnion ==
    (pc = "gfe_done" /\ extents # <<>>) =>
        LET idx == 1..Len(extents)
        IN /\ ExtentResult(bbox) = << SetMin({ extents[i][2] : i \in idx }),
                                      SetMax({ extents[i][3] : i \in idx }),
                                      SetMax({ extents[i][5] : i \in idx }),
                                      SetMin({ extents[i][4] : i \in idx }) >>
           /\ \A f \in Perms(Len(extents)) :
                 get_full_extent(Permuted(extents, f)) = ExtentResult(bbox)

====
